---- MODULE Spec2Model ----
(***************************************************************************)
(* One run of an Xcel Energy download script.  The five scripts share the   *)
(* login / SSO prefix of main() and differ in the capture filter, the page *)
(* interactions after the target page and the replay fetches.              *)
(*                                                                         *)
(* pc names the blocking call in progress (a Playwright sync call, a       *)
(* requests.get, generate_prom).  An action completes that call, success   *)
(* or exception, and runs the straight-line Python statements that follow  *)
(* it up to the next blocking call.  Playwright's sync API dispatches page *)
(* events to the registered callback only while the main greenlet is       *)
(* inside a Playwright call, so OnEvent is enabled exactly at those pcs.   *)
(***************************************************************************)
EXTENDS Integers, Sequences, FiniteSets, TLC

VARIABLES
    flow,        \* which script runs
    cfg,         \* EMAIL and PASSWORD are both set
    pc,          \* blocking call in progress, or unwind / except / exited
    browser,     \* "none" | "open" | "released"
    subscribed,  \* page.on(...) has registered the observer
    issued,      \* events the page has issued, in wire order
    observed,    \* events delivered to the observer callback, in order
    captured,    \* captured["ajax_url"] / captured["odr_data"]
    fromMeter,   \* ajax_url_from_meter (gas flow)
    ajaxUrl,     \* ajax_url chosen for the replay
    marks,       \* Len(observed) at the gas flow's resets and at the decision
    shots,       \* screenshots taken, in order
    filled,      \* credential fields filled so far
    submitted,   \* the submit button was clicked
    cred,        \* cookies / headers built from the browser context
    fetched,     \* replay fetches issued, in order
    files,       \* output files written
    promCalls,   \* number of generate_prom invocations
    calls,       \* per label, how many times the call was executed (capped)
    timeouts,    \* labels whose bounded wait elapsed
    exc,         \* exception in flight or handled ("none" when there is none)
    printed,     \* message printed at the process boundary
    exitCode,    \* -1 while running, then the process exit status
    fn,          \* helper function under call ("main" for a run of a script)
    arg,         \* its arguments
    out,         \* its result, once it has returned
    ret          \* the call has returned

vars == << flow, cfg, pc, browser, subscribed, issued, observed, captured,
           fromMeter, ajaxUrl, marks, shots, filled, submitted, cred, fetched,
           files, promCalls, calls, timeouts, exc, printed, exitCode,
           fn, arg, out, ret >>

-----------------------------------------------------------------------------
(* Bounds and input sets *)

MaxEvents == 3

Flows == {"bill", "daily", "monthly", "gas", "ondemand"}

None == "None"

Statuses == {200, 204, 500}

FetchBodies == {"json", "garbage"}

\* output files of a run: the CSV of the first and of the second normalise
\* step, and the Prometheus textfile
FileNames == {"csv1", "csv2", "prom"}

\* content of an output file: the step that wrote it and what it wrote from
Written(l, b) == [by |-> l, from |-> b]
Absent == Written("none", "none")

-----------------------------------------------------------------------------
(* URLs.  A URL is a path and a query; names and values are token          *)
(* sequences so that "xtimePeriod" and "timePeriod" differ by one token.   *)
(* UrlText is the string the callbacks see, as a sequence of tokens.       *)

P(n, v) == [name |-> n, value |-> v]

UsagePath == << "/myenergy/", "usage-history-ajax", "/format/json" >>

UrlTable(u) ==
    CASE u = "other"          -> [path |-> << "/myenergy/", "usage-history" >>, query |-> << >>]
      [] u = "bill_A"         -> [path |-> << "/myenergy/", "bill-presentment-account-summary-ajax" >>,
                                  query |-> << P(<<"custid">>, <<"A">>), P(<<"page">>, <<"false">>),
                                               P(<<"custid">>, <<"C">>) >>]
      [] u = "bill_B"         -> [path |-> << "/myenergy/", "bill-presentment-account-summary-ajax" >>,
                                  query |-> << P(<<"custid">>, << >>), P(<<"custid">>, <<"B">>),
                                               P(<<"page">>, <<"false">>) >>]
      [] u = "bill_nocust"    -> [path |-> << "/myenergy/", "bill-presentment-account-summary-ajax" >>,
                                  query |-> << P(<<"page">>, <<"false">>) >>]
      [] u = "bill_blank"     -> [path |-> << "/myenergy/", "bill-presentment-account-summary-ajax" >>,
                                  query |-> << P(<<"custid">>, << >>), P(<<"page">>, <<"false">>) >>]
      [] u = "usage_daily"    -> [path |-> UsagePath,
                                  query |-> << P(<<"custId">>, <<"A">>), P(<<"timePeriod">>, <<"DAILY">>),
                                               P(<<"usageType">>, <<"Q">>) >>]
      [] u = "usage_daily2"   -> [path |-> UsagePath,
                                  query |-> << P(<<"custId">>, <<"B">>), P(<<"timePeriod">>, <<"DAILY">>),
                                               P(<<"usageType">>, <<"Q">>) >>]
      [] u = "usage_monthly"  -> [path |-> UsagePath,
                                  query |-> << P(<<"custId">>, <<"A">>), P(<<"timePeriod">>, <<"MONTHLY">>),
                                               P(<<"usageType">>, <<"Q">>) >>]
      [] u = "usage_monthly2" -> [path |-> UsagePath,
                                  query |-> << P(<<"custId">>, <<"B">>), P(<<"timePeriod">>, <<"MONTHLY">>),
                                               P(<<"usageType">>, <<"Q">>) >>]
      [] u = "usage_xdaily"   -> [path |-> UsagePath,
                                  query |-> << P(<<"timePeriod">>, <<"MONTHLY">>),
                                               P(<<"x", "timePeriod">>, <<"DAILY">>) >>]
      [] u = "usage_xmonthly" -> [path |-> UsagePath,
                                  query |-> << P(<<"timePeriod">>, <<"DAILY">>),
                                               P(<<"x", "timePeriod">>, <<"MONTHLY">>) >>]
      [] u = "odr"            -> [path |-> << "/myenergy/", "odr-ajax" >>, query |-> << >>]

RECURSIVE QueryText(_)
QueryText(q) ==
    IF q = << >> THEN << >>
    ELSE LET h == Head(q)
             one == h.name \o << "=" >> \o h.value
         IN  IF Len(q) = 1 THEN one ELSE one \o << "&" >> \o QueryText(Tail(q))

UrlText(u) ==
    LET r == UrlTable(u)
    IN  << "https://myenergy.xcelenergy.com" >> \o r.path
        \o (IF r.query = << >> THEN << >> ELSE << "?" >> \o QueryText(r.query))

\* Python's `needle in text` on token sequences
Contains(text, needle) ==
    \E i \in 1..(Len(text) - Len(needle) + 1) :
        SubSeq(text, i, i + Len(needle) - 1) = needle

BillNeedle  == << "bill-presentment-account-summary-ajax" >>
UsageNeedle == << "usage-history-ajax", "/format/json" >>
OdrNeedle   == << "odr-ajax" >>
PeriodNeedle(p) == << "timePeriod", "=", p >>

\* the `in url` conjuncts of each script's observer callback
Matches(f, u) ==
    LET t == UrlText(u)
    IN  CASE f = "bill"     -> Contains(t, BillNeedle)
          [] f = "daily"    -> Contains(t, UsageNeedle) /\ Contains(t, PeriodNeedle("DAILY"))
          [] f = "monthly"  -> Contains(t, UsageNeedle) /\ Contains(t, PeriodNeedle("MONTHLY"))
          [] f = "gas"      -> Contains(t, UsageNeedle)
          [] f = "ondemand" -> Contains(t, OdrNeedle)

\* parse_qs(parsed.query).get("custid", [None])[0]: blank values are dropped
\* by parse_qs (keep_blank_values is off), the first remaining value wins;
\* << >> stands for the None of a missing parameter (both fail `if not custid`)
\* mutant: the last value of the parameter is taken
RECURSIVE FirstValue_last(_, _)
FirstValue_last(q, n) ==
    IF q = << >> THEN << >>
    ELSE LET i == Len(q)
         IN  IF q[i].name = n /\ q[i].value # << >> THEN q[i].value
             ELSE FirstValue_last(SubSeq(q, 1, i - 1), n)

RECURSIVE FirstValue(_, _)
FirstValue(q, n) ==
    IF q = << >> THEN << >>
    ELSE IF Head(q).name = n /\ Head(q).value # << >> THEN Head(q).value
         ELSE FirstValue(Tail(q), n)

Custid(u) == FirstValue(UrlTable(u).query, << "custid" >>)

-----------------------------------------------------------------------------
(* Response bodies of the on-demand flow, by what resp.json() gives *)

Bodies == {"garbage", "empty", "ok", "err_empty", "err_msg"}

Decodable(b) == b # "garbage"           \* resp.json() does not raise
Truthy(b)    == b \notin {None, "empty"} \* `not odr_data` is false
ErrorField(b) ==
    CASE b = "err_empty" -> ""
      [] b = "err_msg"   -> "msg"
      [] OTHER           -> None
ErrorTruthy(b) == ErrorField(b) \notin {None, ""}

Ev(u, b) == [url |-> u, body |-> b]

\* events the target site can produce in each flow
EventsOf(f) ==
    CASE f = "bill"     -> {Ev(u, "na") : u \in {"bill_A", "bill_B", "bill_nocust", "bill_blank", "other"}}
      [] f = "daily"    -> {Ev(u, "na") : u \in {"usage_daily", "usage_daily2", "usage_monthly",
                                                  "usage_xdaily", "other"}}
      [] f = "monthly"  -> {Ev(u, "na") : u \in {"usage_monthly", "usage_monthly2", "usage_daily",
                                                  "usage_xmonthly", "other"}}
      [] f = "gas"      -> {Ev(u, "na") : u \in {"usage_monthly", "usage_monthly2", "usage_daily", "other"}}
      [] f = "ondemand" -> {Ev("odr", b) : b \in Bodies} \cup {Ev("other", "ok")}

-----------------------------------------------------------------------------
(* Program order of the blocking calls *)

Common ==
    << "launch", "new_page", "page_on", "goto_login", "wait_form", "fill_id", "fill_pw",
       "click", "wait_login_url", "idle_login", "goto_sso", "wait_sso_url",
       "idle_sso", "goto_target", "idle_target" >>

SwitchAndFetch ==
    << "evaluate_switch", "wait_timeout_switch", "idle_switch", "cookies",
       "fetch1", "fetch2", "close_browser", "prom" >>

\* mutant: the SSO hop is left out of the script
Prog_skipSso(f) ==
    LET c == << "launch", "new_page", "page_on", "goto_login", "wait_form",
                "fill_id", "fill_pw", "click", "wait_login_url", "idle_login",
                "goto_target", "idle_target" >>
    IN  CASE f = "bill"     -> c \o << "cookies", "close_browser", "fetch1", "prom" >>
          [] f = "gas"      -> c \o << "evaluate_meter", "wait_timeout_meter", "idle_meter" >>
                                 \o SwitchAndFetch
          [] f = "ondemand" -> c \o << "close_browser", "prom" >>
          [] OTHER          -> c \o SwitchAndFetch

\* mutant: page.on(...) is called after the first page.goto
Prog_lateSubscribe(f) ==
    LET c == << "launch", "new_page", "goto_login", "page_on", "wait_form",
                "fill_id", "fill_pw", "click", "wait_login_url", "idle_login",
                "goto_sso", "wait_sso_url", "idle_sso", "goto_target", "idle_target" >>
    IN  CASE f = "bill"     -> c \o << "cookies", "close_browser", "fetch1", "prom" >>
          [] f = "gas"      -> c \o << "evaluate_meter", "wait_timeout_meter", "idle_meter" >>
                                 \o SwitchAndFetch
          [] f = "ondemand" -> c \o << "close_browser", "prom" >>
          [] OTHER          -> c \o SwitchAndFetch

\* mutant: the metrics snapshot is written after the first replay fetch
Prog_promEarly(f) ==
    LET early == << "evaluate_switch", "wait_timeout_switch", "idle_switch", "cookies",
                    "fetch1", "prom", "fetch2", "close_browser" >>
    IN  CASE f = "bill"     -> Common \o << "cookies", "close_browser", "fetch1", "prom" >>
          [] f = "gas"      -> Common \o << "evaluate_meter", "wait_timeout_meter", "idle_meter" >>
                                      \o early
          [] f = "ondemand" -> Common \o << "close_browser", "prom" >>
          [] OTHER          -> Common \o early

\* mutant: the cookies are read before the chart is switched, ahead of the
\* capture decision
Prog_cookiesEarly(f) ==
    LET early == << "cookies", "evaluate_switch", "wait_timeout_switch", "idle_switch",
                    "fetch1", "fetch2", "close_browser", "prom" >>
    IN  CASE f = "bill"     -> Common \o << "cookies", "close_browser", "fetch1", "prom" >>
          [] f = "gas"      -> Common \o << "evaluate_meter", "wait_timeout_meter", "idle_meter" >>
                                      \o early
          [] f = "ondemand" -> Common \o << "close_browser", "prom" >>
          [] OTHER          -> Common \o early

Prog(f) ==
    CASE f = "bill"     -> Common \o << "cookies", "close_browser", "fetch1", "prom" >>
      [] f = "daily"    -> Common \o SwitchAndFetch
      [] f = "monthly"  -> Common \o SwitchAndFetch
      [] f = "gas"      -> Common \o << "evaluate_meter", "wait_timeout_meter", "idle_meter" >>
                                  \o SwitchAndFetch
      [] f = "ondemand" -> Common \o << "close_browser", "prom" >>

ShotLabels == {"shot_login", "shot_sso", "shot_capture", "shot_meter"}

Labels ==
    {"launch", "new_page", "goto_login", "wait_form", "fill_id", "fill_pw",
     "click", "wait_login_url", "idle_login", "goto_sso", "wait_sso_url",
     "idle_sso", "goto_target", "idle_target", "evaluate_meter",
     "wait_timeout_meter", "idle_meter", "evaluate_switch",
     "wait_timeout_switch", "idle_switch", "cookies", "fetch1", "fetch2",
     "close_browser", "prom"} \cup ShotLabels

Index(f, l) == CHOOSE i \in 1..Len(Prog(f)) : Prog(f)[i] = l

\* the statement that follows l in the script
Succ(f, l) == Prog(f)[Index(f, l) + 1]

\* page.on(...) only registers a callback: it runs as part of the step that
\* completes the blocking call before it
SubscribesAt(f, l) == Succ(f, l) = "page_on"

\* the blocking call that follows l in the script
NextCall(f, l) == IF SubscribesAt(f, l) THEN Succ(f, "page_on") ELSE Succ(f, l)

\* calls made after the `with sync_playwright()` block has been left
AfterWith(f) == IF f = "bill" THEN {"fetch1", "prom"} ELSE {"prom"}

\* Playwright page calls: the page can issue requests while one is in progress
PumpLabels ==
    {"goto_login", "wait_form", "fill_id", "fill_pw", "click", "wait_login_url",
     "idle_login", "goto_sso", "wait_sso_url", "idle_sso", "goto_target",
     "idle_target", "evaluate_meter", "wait_timeout_meter", "idle_meter",
     "evaluate_switch", "wait_timeout_switch", "idle_switch", "cookies"}
    \cup ShotLabels

-----------------------------------------------------------------------------
(* Exceptions *)

\* mutant: the except-PWTimeout handlers re-raise without a screenshot
OnTimeout_noShot(l) == "raise"

\* mutant: the timeout of the login form wait is swallowed
OnTimeout_swallowForm(l) ==
    CASE l = "wait_form"      -> "fill_id"
      [] l = "wait_login_url" -> "shot_login"
      [] l = "wait_sso_url"   -> "shot_sso"
      [] OTHER                -> "raise"

\* mutant: a login timeout starts the login over
OnTimeout_retry(l) ==
    CASE l = "wait_login_url" -> "goto_login"
      [] l = "wait_sso_url"   -> "shot_sso"
      [] OTHER                -> "raise"

\* mutant: a wait without an upper bound, the call never returns
OnTimeout_hang(l) == "hung"

\* where control goes when the bounded wait of call l elapses: the label of
\* the screenshot call of an except-PWTimeout handler, or "raise" when the
\* timeout propagates out of main()
OnTimeout(l) ==
    CASE l = "wait_login_url" -> "shot_login"
      [] l = "wait_sso_url"   -> "shot_sso"
      [] OTHER                -> "raise"

\* where control goes when the capture slot is empty at the decision
MissPath(f) == IF f = "daily" THEN "raise" ELSE "shot_capture"

\* file written by page.screenshot at label l
ShotName(f, l) ==
    CASE l = "shot_login"   -> "login_error.png"
      [] l = "shot_sso"     -> "sso_error.png"
      [] l = "shot_meter"   -> "gas_meter_error.png"
      [] l = "shot_capture" ->
            CASE f = "bill"     -> "bill_history_error.png"
              [] f = "monthly"  -> "elec_monthly_debug.png"
              [] f = "gas"      -> "gas_monthly_debug.png"
              [] f = "ondemand" -> "ondemand_error.png"
              [] OTHER          -> "none.png"

\* RuntimeError raised after the screenshot at label l
ShotError(l) ==
    CASE l = "shot_login"   -> "LoginTimeout"
      [] l = "shot_sso"     -> "SSOTimeout"
      [] l = "shot_meter"   -> "MeterMissing"
      [] l = "shot_capture" -> "CaptureMissing"

\* mutant: no scoped release, an exception leaves the browser as it is
WithExit_leak(b) == b

\* state of the browser once the `with sync_playwright()` block is left:
\* __exit__ stops the driver, which ends a browser that is still open
WithExit(b) == IF b = "open" THEN "released" ELSE b

\* mutant: the handler prints the failure and exits with status 0
ExceptExit_zero(e) == 0

\* exit status set by the `except Exception` handler of __main__
ExceptExit(e) == 1

\* mutant: the URL of the meter selection is preferred
GasChoice_meterFirst(c, m) == IF m # None THEN m ELSE c

\* captured["ajax_url"] or ajax_url_from_meter
GasChoice(c, m) == IF c # None THEN c ELSE m

-----------------------------------------------------------------------------
(* Observer callbacks *)

\* mutant: the `captured[...] is None` conjunct is missing
on_request_overwrite(f, slot, e) ==
    IF Matches(f, e.url) THEN e.url ELSE slot

\* on_request of the bill, daily, monthly and gas scripts: new slot value
on_request(f, slot, e) ==
    IF Matches(f, e.url) /\ slot = None THEN e.url ELSE slot

\* on_response of the on-demand script: new slot value
on_response(f, slot, e) ==
    IF Matches(f, e.url) /\ slot = None
    THEN (IF Decodable(e.body) THEN e.body ELSE slot)
    ELSE slot

Observer(f, slot, e) ==
    IF f = "ondemand" THEN on_response(f, slot, e) ELSE on_request(f, slot, e)

-----------------------------------------------------------------------------
(* Initial state: main() entered, nothing done yet *)

Init ==
    /\ flow \in Flows
    /\ cfg \in BOOLEAN
    /\ pc = "start"
    /\ browser = "none"
    /\ subscribed = FALSE
    /\ issued = << >>
    /\ observed = << >>
    /\ captured = None
    /\ fromMeter = None
    /\ ajaxUrl = None
    /\ marks = [meter |-> -1, switch |-> -1, decide |-> -1]
    /\ shots = << >>
    /\ filled = {}
    /\ submitted = FALSE
    /\ cred = [cookies |-> None, headers |-> None]
    /\ fetched = << >>
    /\ files = [n \in FileNames |-> Absent]
    /\ promCalls = 0
    /\ calls = [l \in Labels |-> 0]
    /\ timeouts = {}
    /\ exc = "none"
    /\ printed = "none"
    /\ exitCode = -1
    /\ fn = "main"
    /\ arg = << >>
    /\ out = << >>
    /\ ret = FALSE

-----------------------------------------------------------------------------
(* Shared step fragments *)

Bump(l) == [calls EXCEPT ![l] = IF @ < 2 THEN @ + 1 ELSE @]

\* call l returned: go on to the next blocking call
Succeed(l) ==
    /\ pc' = NextCall(flow, l)
    /\ subscribed' = (subscribed \/ SubscribesAt(flow, l))
    /\ exc' = exc

\* an exception leaves main(): through the with block's __exit__ when it is
\* raised inside the block, straight to the handler of __main__ otherwise
Throw(l, reason) ==
    /\ pc' = IF l \in AfterWith(flow) THEN "except" ELSE "unwind"
    /\ exc' = reason
    /\ subscribed' = subscribed

\* the bounded wait of call l elapsed (PWTimeout)
TimedOut(l) ==
    /\ timeouts' = timeouts \cup {l}
    /\ IF OnTimeout(l) = "raise"
       THEN Throw(l, "PWTimeout")
       ELSE pc' = OnTimeout(l) /\ exc' = exc /\ subscribed' = subscribed

\* the capture slot is empty at the decision
Miss(l) ==
    IF MissPath(flow) = "raise"
    THEN Throw(l, "CaptureMissing")
    ELSE pc' = MissPath(flow) /\ exc' = exc /\ subscribed' = subscribed

-----------------------------------------------------------------------------
(* Actions *)

\* mutant: main() does not test the configuration
Start_noCheck ==
    /\ pc = "start"
    /\ pc' = Prog(flow)[1]
    /\ UNCHANGED << fn, arg, out, ret, flow, cfg, browser, subscribed, issued, observed, captured,
                    fromMeter, ajaxUrl, marks, shots, filled, submitted, cred,
                    fetched, files, promCalls, calls, timeouts, exc, printed, exitCode >>

\* main(): the configuration check, then `with sync_playwright() as p`
Start ==
    /\ pc = "start"
    /\ IF ~cfg
       THEN /\ pc' = "exited"
            /\ exc' = "SystemExit"
            /\ printed' = "ERROR: Set XCEL_USERNAME and XCEL_PASSWORD in your .env file."
            /\ exitCode' = 1
       ELSE /\ pc' = Prog(flow)[1]
            /\ UNCHANGED << exc, printed, exitCode >>
    /\ UNCHANGED << fn, arg, out, ret, flow, cfg, browser, subscribed, issued, observed, captured,
                    fromMeter, ajaxUrl, marks, shots, filled, submitted, cred,
                    fetched, files, promCalls, calls, timeouts >>

\* p.chromium.launch(headless=True)
Launch ==
    /\ pc = "launch"
    /\ calls' = Bump(pc)
    /\ \/ browser' = "open" /\ Succeed(pc)
       \/ browser' = browser /\ Throw(pc, "PWError")
    /\ UNCHANGED << fn, arg, out, ret, flow, cfg, issued, observed, captured, fromMeter, ajaxUrl,
                    marks, shots, filled, submitted, cred, fetched, files,
                    promCalls, timeouts, printed, exitCode >>

\* browser.new_context(...); context.new_page()
NewPage ==
    /\ pc = "new_page"
    /\ calls' = Bump(pc)
    /\ \/ Succeed(pc)
       \/ Throw(pc, "PWError")
    /\ UNCHANGED << fn, arg, out, ret, flow, cfg, browser, issued, observed, captured, fromMeter,
                    ajaxUrl, marks, shots, filled, submitted, cred, fetched,
                    files, promCalls, timeouts, printed, exitCode >>

\* page.goto(LOGIN_URL | IDP_SSO_URL | target page, timeout=60_000)
Goto ==
    /\ pc \in {"goto_login", "goto_sso", "goto_target"}
    /\ calls' = Bump(pc)
    /\ \/ Succeed(pc) /\ timeouts' = timeouts
       \/ TimedOut(pc)
    /\ UNCHANGED << fn, arg, out, ret, flow, cfg, browser, issued, observed, captured, fromMeter,
                    ajaxUrl, marks, shots, filled, submitted, cred, fetched,
                    files, promCalls, printed, exitCode >>

\* page.wait_for_selector(loginID instance, state="attached", timeout=30_000)
WaitForSelector ==
    /\ pc = "wait_form"
    /\ calls' = Bump(pc)
    /\ \/ Succeed(pc) /\ timeouts' = timeouts
       \/ TimedOut(pc)
    /\ UNCHANGED << fn, arg, out, ret, flow, cfg, browser, issued, observed, captured, fromMeter,
                    ajaxUrl, marks, shots, filled, submitted, cred, fetched,
                    files, promCalls, printed, exitCode >>

\* page.locator(loginID).fill(EMAIL); page.locator(password).fill(PASSWORD)
Fill ==
    /\ pc \in {"fill_id", "fill_pw"}
    /\ calls' = Bump(pc)
    /\ \/ /\ filled' = filled \cup {IF pc = "fill_id" THEN "loginID" ELSE "password"}
          /\ Succeed(pc) /\ timeouts' = timeouts
       \/ filled' = filled /\ TimedOut(pc)
    /\ UNCHANGED << fn, arg, out, ret, flow, cfg, browser, issued, observed, captured, fromMeter,
                    ajaxUrl, marks, shots, submitted, cred, fetched, files,
                    promCalls, printed, exitCode >>

\* page.locator(submit).click()
Click ==
    /\ pc = "click"
    /\ calls' = Bump(pc)
    /\ \/ submitted' = TRUE /\ Succeed(pc) /\ timeouts' = timeouts
       \/ submitted' = submitted /\ TimedOut(pc)
    /\ UNCHANGED << fn, arg, out, ret, flow, cfg, browser, issued, observed, captured, fromMeter,
                    ajaxUrl, marks, shots, filled, cred, fetched, files,
                    promCalls, printed, exitCode >>

\* try: page.wait_for_url(...) except PWTimeout: screenshot, raise
WaitForUrl ==
    /\ pc \in {"wait_login_url", "wait_sso_url"}
    /\ calls' = Bump(pc)
    /\ \/ Succeed(pc) /\ timeouts' = timeouts
       \/ TimedOut(pc)
    /\ UNCHANGED << fn, arg, out, ret, flow, cfg, browser, issued, observed, captured, fromMeter,
                    ajaxUrl, marks, shots, filled, submitted, cred, fetched,
                    files, promCalls, printed, exitCode >>

\* page.screenshot(path=...) followed by raise RuntimeError(...)
Screenshot ==
    /\ pc \in ShotLabels
    /\ calls' = Bump(pc)
    /\ shots' = Append(shots, ShotName(flow, pc))
    /\ Throw(pc, ShotError(pc))
    /\ UNCHANGED << fn, arg, out, ret, flow, cfg, browser, issued, observed, captured, fromMeter,
                    ajaxUrl, marks, filled, submitted, cred, fetched, files,
                    promCalls, timeouts, printed, exitCode >>

\* the capture decision once the last wait before it has returned:
\* `ajax_url = captured[...]`, `if not ajax_url: ...`, and what follows up to
\* the next blocking call
Decide(l) ==
    LET slot == IF flow = "gas" THEN GasChoice(captured, fromMeter) ELSE captured
    IN  /\ marks' = [marks EXCEPT !.decide = Len(observed)]
        /\ UNCHANGED << captured, fromMeter >>
        /\ CASE flow = "bill" ->
                  IF slot = None THEN Miss(l) /\ ajaxUrl' = ajaxUrl
                  ELSE /\ ajaxUrl' = slot
                       /\ IF Custid(slot) = << >> THEN Throw(l, "NoCustid") ELSE Succeed(l)
             [] flow = "ondemand" ->
                  /\ ajaxUrl' = ajaxUrl
                  /\ IF ~Truthy(slot) THEN Miss(l)
                     ELSE IF ErrorTruthy(slot) THEN Throw(l, "PayloadError")
                     ELSE Succeed(l)
             [] OTHER ->
                  IF slot = None THEN Miss(l) /\ ajaxUrl' = ajaxUrl
                  ELSE ajaxUrl' = slot /\ Succeed(l)

\* page.wait_for_load_state("networkidle", timeout=...) and the statements
\* after it
WaitForLoadState ==
    /\ pc \in {"idle_login", "idle_sso", "idle_target", "idle_meter", "idle_switch"}
    /\ calls' = Bump(pc)
    /\ \/ /\ TimedOut(pc)
          /\ UNCHANGED << captured, fromMeter, ajaxUrl, marks >>
       \/ /\ timeouts' = timeouts
          /\ CASE pc \in {"idle_login", "idle_sso"} ->
                    Succeed(pc) /\ UNCHANGED << captured, fromMeter, ajaxUrl, marks >>
               [] pc = "idle_target" /\ flow \in {"daily", "monthly"} ->
                    Succeed(pc) /\ UNCHANGED << captured, fromMeter, ajaxUrl, marks >>
               [] pc = "idle_target" /\ flow = "gas" ->
                    \* captured["ajax_url"] = None before the meter selection
                    /\ captured' = None
                    /\ marks' = [marks EXCEPT !.meter = Len(observed)]
                    /\ Succeed(pc)
                    /\ UNCHANGED << fromMeter, ajaxUrl >>
               [] pc = "idle_target" /\ flow \in {"bill", "ondemand"} ->
                    Decide(pc)
               [] pc = "idle_meter" ->
                    \* ajax_url_from_meter = captured[...]; captured[...] = None
                    /\ fromMeter' = captured
                    /\ captured' = None
                    /\ marks' = [marks EXCEPT !.switch = Len(observed)]
                    /\ Succeed(pc)
                    /\ ajaxUrl' = ajaxUrl
               [] pc = "idle_switch" ->
                    Decide(pc)
    /\ UNCHANGED << fn, arg, out, ret, flow, cfg, browser, issued, observed, shots, filled,
                    submitted, cred, fetched, files, promCalls, printed, exitCode >>

\* selected = page.evaluate(<select the gas meter>); if not selected: ...
EvaluateMeter ==
    /\ pc = "evaluate_meter"
    /\ calls' = Bump(pc)
    /\ \/ Succeed(pc)
       \/ pc' = "shot_meter" /\ exc' = exc /\ subscribed' = subscribed
       \/ Throw(pc, "PWError")
    /\ UNCHANGED << fn, arg, out, ret, flow, cfg, browser, issued, observed, captured, fromMeter,
                    ajaxUrl, marks, shots, filled, submitted, cred, fetched,
                    files, promCalls, timeouts, printed, exitCode >>

\* page.evaluate(<set select#timePeriod>)
EvaluateSwitch ==
    /\ pc = "evaluate_switch"
    /\ calls' = Bump(pc)
    /\ \/ Succeed(pc)
       \/ Throw(pc, "PWError")
    /\ UNCHANGED << fn, arg, out, ret, flow, cfg, browser, issued, observed, captured, fromMeter,
                    ajaxUrl, marks, shots, filled, submitted, cred, fetched,
                    files, promCalls, timeouts, printed, exitCode >>

\* page.wait_for_timeout(3000)
WaitForTimeout ==
    /\ pc \in {"wait_timeout_meter", "wait_timeout_switch"}
    /\ calls' = Bump(pc)
    /\ \/ Succeed(pc)
       \/ Throw(pc, "PWError")
    /\ UNCHANGED << fn, arg, out, ret, flow, cfg, browser, issued, observed, captured, fromMeter,
                    ajaxUrl, marks, shots, filled, submitted, cred, fetched,
                    files, promCalls, timeouts, printed, exitCode >>

CookieJars == {"session", "anonymous"}

\* req_headers = {"User-Agent": UA, "Referer": ...}
Headers(f) == IF f = "bill" THEN "UA+bill-presentment" ELSE "UA+usage-history"

\* raw_cookies = context.cookies([MYENERGY_BASE]); cookies = {...}; req_headers = {...}
Cookies ==
    /\ pc = "cookies"
    /\ calls' = Bump(pc)
    /\ \/ \E j \in CookieJars :
             /\ cred' = [cookies |-> j, headers |-> Headers(flow)]
             /\ Succeed(pc)
       \/ cred' = cred /\ Throw(pc, "PWError")
    /\ UNCHANGED << fn, arg, out, ret, flow, cfg, browser, issued, observed, captured, fromMeter,
                    ajaxUrl, marks, shots, filled, submitted, fetched, files,
                    promCalls, timeouts, printed, exitCode >>

\* URL of the replay fetch at label l: build_bill_ajax_url(custid, ...),
\* kwh_url = ajax_url, cost_url = swap_usage_type(ajax_url, "C")
ReplayUrl(f, l, a) ==
    IF f = "bill"
    THEN [kind |-> "template", base |-> "BILL_AJAX_ENDPOINT", custid |-> Custid(a), usageType |-> "none"]
    ELSE IF l = "fetch1"
         THEN [kind |-> "captured", base |-> a, custid |-> << >>, usageType |-> "captured"]
         ELSE [kind |-> "swapped", base |-> a, custid |-> << >>, usageType |-> "C"]

CsvOf(l) == IF l = "fetch1" THEN "csv1" ELSE "csv2"

\* mutant: the status test is missing, every response is normalised
FetchFails_never(s) == FALSE

\* if r.status_code != 200: raise RuntimeError(...)
FetchFails(s) == s # 200

\* r = _req.get(url, cookies=cookies, headers=req_headers, timeout=30);
\* if r.status_code != 200: raise; rows = ..._to_csv(r.json(), file)
Fetch ==
    /\ pc \in {"fetch1", "fetch2"}
    /\ calls' = Bump(pc)
    /\ \E s \in Statuses, b \in FetchBodies :
          /\ fetched' = Append(fetched, [n |-> pc, url |-> ReplayUrl(flow, pc, ajaxUrl),
                                         cred |-> cred, status |-> s,
                                         body |-> IF FetchFails(s) THEN "unread" ELSE b])
          /\ IF FetchFails(s) THEN Throw(pc, "FetchStatus") /\ files' = files
             ELSE IF b = "garbage" THEN Throw(pc, "Decode") /\ files' = files
             ELSE /\ files' = [files EXCEPT ![CsvOf(pc)] = Written(pc, b)]
                  /\ Succeed(pc)
    /\ UNCHANGED << fn, arg, out, ret, flow, cfg, browser, issued, observed, captured, fromMeter,
                    ajaxUrl, marks, shots, filled, submitted, cred, promCalls,
                    timeouts, printed, exitCode >>

\* browser.close(), the end of the with block and, in the on-demand flow,
\* intervals_to_csv(intervals, csv_file)
CloseBrowser ==
    /\ pc = "close_browser"
    /\ calls' = Bump(pc)
    /\ \/ /\ browser' = WithExit("released")
          /\ files' = IF flow = "ondemand"
                       THEN [files EXCEPT !["csv1"] = Written(pc, captured)]
                       ELSE files
          /\ Succeed(pc)
       \/ browser' = browser /\ files' = files /\ Throw(pc, "PWError")
    /\ UNCHANGED << fn, arg, out, ret, flow, cfg, issued, observed, captured, fromMeter, ajaxUrl,
                    marks, shots, filled, submitted, cred, fetched, promCalls,
                    timeouts, printed, exitCode >>

\* prom_out = generate_prom(...); print(...); print("Done!")
GenerateProm ==
    /\ pc = "prom"
    /\ calls' = Bump(pc)
    /\ promCalls' = promCalls + 1
    /\ \/ /\ files' = [files EXCEPT !["prom"] = Written(pc, "samples")]
          /\ pc' = "exited"
          /\ printed' = "Done!"
          /\ exitCode' = 0
          /\ UNCHANGED << exc, subscribed >>
       \/ Throw(pc, "PromError") /\ UNCHANGED << files, printed, exitCode >>
    /\ UNCHANGED << fn, arg, out, ret, flow, cfg, browser, issued, observed, captured, fromMeter,
                    ajaxUrl, marks, shots, filled, submitted, cred, fetched,
                    timeouts >>

\* the with block's __exit__ while an exception propagates
WithExitOnError ==
    /\ pc = "unwind"
    /\ browser' = WithExit(browser)
    /\ pc' = "except"
    /\ UNCHANGED << fn, arg, out, ret, flow, cfg, subscribed, issued, observed, captured, fromMeter,
                    ajaxUrl, marks, shots, filled, submitted, cred, fetched,
                    files, promCalls, calls, timeouts, exc, printed, exitCode >>

\* except Exception as e: print(f"\nFailed: {e}"); sys.exit(1)
MainExcept ==
    /\ pc = "except"
    /\ printed' = exc
    /\ exitCode' = ExceptExit(exc)
    /\ pc' = "exited"
    /\ UNCHANGED << fn, arg, out, ret, flow, cfg, browser, subscribed, issued, observed, captured,
                    fromMeter, ajaxUrl, marks, shots, filled, submitted, cred,
                    fetched, files, promCalls, calls, timeouts, exc >>

\* mutant: the callback navigates the page when it has filled the slot
OnEvent_navigates ==
    /\ pc \in PumpLabels
    /\ browser = "open"
    /\ Len(issued) < MaxEvents
    /\ \E e \in EventsOf(flow) :
          /\ issued' = Append(issued, e)
          /\ IF subscribed
             THEN /\ observed' = Append(observed, e)
                  /\ captured' = Observer(flow, captured, e)
                  /\ pc' = IF captured' # captured THEN "goto_target" ELSE pc
             ELSE UNCHANGED << observed, captured, pc >>
    /\ UNCHANGED << fn, arg, out, ret, flow, cfg, browser, subscribed, fromMeter, ajaxUrl,
                    marks, shots, filled, submitted, cred, fetched, files,
                    promCalls, calls, timeouts, exc, printed, exitCode >>

\* the page issues a request (a response arrives, in the on-demand flow)
\* while a Playwright call is in progress; the observer runs if registered
OnEvent ==
    /\ pc \in PumpLabels
    /\ browser = "open"
    /\ Len(issued) < MaxEvents
    /\ \E e \in EventsOf(flow) :
          /\ issued' = Append(issued, e)
          /\ IF subscribed
             THEN /\ observed' = Append(observed, e)
                  /\ captured' = Observer(flow, captured, e)
             ELSE UNCHANGED << observed, captured >>
    /\ UNCHANGED << fn, arg, out, ret, flow, cfg, pc, browser, subscribed, fromMeter, ajaxUrl,
                    marks, shots, filled, submitted, cred, fetched, files,
                    promCalls, calls, timeouts, exc, printed, exitCode >>

Next ==
    \/ Start
    \/ Launch
    \/ NewPage
    \/ Goto
    \/ WaitForSelector
    \/ Fill
    \/ Click
    \/ WaitForUrl
    \/ Screenshot
    \/ WaitForLoadState
    \/ EvaluateMeter
    \/ EvaluateSwitch
    \/ WaitForTimeout
    \/ Cookies
    \/ Fetch
    \/ CloseBrowser
    \/ GenerateProm
    \/ WithExitOnError
    \/ MainExcept
    \/ OnEvent

Spec == Init /\ [][Next]_vars

TypeOK ==
    /\ flow \in Flows
    /\ pc \in Labels \cup {"start", "unwind", "except", "exited"}
    /\ browser \in {"none", "open", "released"}
    /\ exitCode \in {-1, 0, 1}
    /\ Len(observed) <= Len(issued)

-----------------------------------------------------------------------------
(* Vocabulary of the properties *)

failed == exc # "none"

terminal == pc = "exited"

\* positions (1-based) of the events of evs that pass the flow's filter
MatchIdx(f, evs) == {i \in 1..Len(evs) : Matches(f, evs[i].url)}

Min(S) == CHOOSE x \in S : \A y \in S : x <= y
Max(S) == CHOOSE x \in S : \A y \in S : x >= y

\* URL of the earliest / latest event of evs that passes the flow's filter
FirstMatch(f, evs) ==
    IF MatchIdx(f, evs) = {} THEN None ELSE evs[Min(MatchIdx(f, evs))].url
LastMatch(f, evs) ==
    IF MatchIdx(f, evs) = {} THEN None ELSE evs[Max(MatchIdx(f, evs))].url

\* events observed after the meter-selection reset and up to the decision,
\* and those of them observed after the granularity-switch reset
AfterMeter  == SubSeq(observed, marks.meter + 1, marks.decide)
AfterSwitch == SubSeq(observed, marks.switch + 1, marks.decide)

\* the calls of the script that come after call l
Later(f, l) == {Prog(f)[i] : i \in (Index(f, l) + 1)..Len(Prog(f))} \ {"page_on"}

FailPcs == {"unwind", "except", "exited"}

\* phase of the session bridge the run is in, by the call in progress:
\* 0 unauthenticated, 1 login form ready, 2 credentials submitted, 3 local
\* session established, 4 SSO initiated, 5 remote session established,
\* 6 target page loaded, 7 capture satisfied, 8 failed
Phase(l, e) ==
    CASE e # "none" -> 8
      [] l \in {"start", "launch", "new_page", "goto_login", "wait_form"} -> 0
      [] l \in {"fill_id", "fill_pw", "click"} -> 1
      [] l \in {"wait_login_url", "shot_login"} -> 2
      [] l \in {"idle_login", "goto_sso"} -> 3
      [] l \in {"wait_sso_url", "shot_sso"} -> 4
      [] l \in {"idle_sso", "goto_target"} -> 5
      [] l \in {"idle_target", "evaluate_meter", "shot_meter", "wait_timeout_meter",
                "idle_meter", "evaluate_switch", "wait_timeout_switch", "idle_switch",
                "shot_capture"} -> 6
      [] OTHER -> 7

\* a step in which the run fails
FailStep == exc = "none" /\ Next /\ exc' # "none"

\* a step into the screenshot call of an error handler
ShotStep == Next /\ pc' \in ShotLabels

-----------------------------------------------------------------------------
(* C1 .. C10 *)

\* C1: in the bill-history, electric-daily and electric-monthly flows the
\* capture slot holds, in every state of the run, the URL of the earliest
\* observed request that passes the flow's filter (None while there is none),
\* so a later matching request never changes a filled slot.
C1_FirstMatchRetained ==
    flow \in {"bill", "daily", "monthly"} => captured = FirstMatch(flow, observed)

C1_Witness ==
    /\ flow = "daily"
    /\ Cardinality(MatchIdx(flow, observed)) >= 2
    /\ LastMatch(flow, observed) # FirstMatch(flow, observed)
    /\ captured = FirstMatch(flow, observed)

C3_BrowserReleased ==
    (terminal /\ calls["launch"] >= 1 /\ browser # "none") => browser = "released"

C3_Witness ==
    /\ terminal
    /\ flow = "daily"
    /\ exc = "FetchStatus"
    /\ Len(fetched) = 2
    /\ browser = "released"

\* C4: the phases are passed in their order, one at a time, none skipped and
\* none revisited; from every call of every phase the run can fail, in one
\* step or through the screenshot of an error handler; and once the run has
\* failed it stays failed and executes no further call, fetch, screenshot or
\* output step.
C4_PhaseOrder ==
    /\ [](pc \in Labels => (ENABLED FailStep \/ ENABLED ShotStep))
    /\ [](pc \in ShotLabels => ENABLED FailStep)
    /\ [][ \/ Phase(pc', exc') = Phase(pc, exc)
           \/ Phase(pc', exc') = Phase(pc, exc) + 1
           \/ Phase(pc', exc') = 8 ]_vars
    /\ [][ failed => /\ failed'
                     /\ pc' \in FailPcs
                     /\ UNCHANGED << calls, fetched, files, promCalls, shots,
                                     filled, submitted, cred >> ]_vars

C4_Witness ==
    /\ terminal
    /\ flow = "gas"
    /\ exitCode = 0
    /\ \A l \in Later("gas", "launch") : calls[l] = 1

\* C5: the observer is registered before any call during which the page can
\* issue requests, so the events delivered to the callback are exactly the
\* events the page issued, in the same order.
C5_ObserverFirst ==
    /\ pc \in PumpLabels => subscribed
    /\ observed = issued

C5_Witness ==
    /\ pc = "goto_login"
    /\ Len(issued) >= 1
    /\ observed = issued

\* C6 as stated: in every flow a run that fails with the 'did not capture'
\* error has taken exactly one screenshot, the capture one.
C6_CaptureMissOneShot ==
    exc = "CaptureMissing" => shots = << ShotName(flow, "shot_capture") >>

C8_FormNotReady ==
    "wait_form" \in timeouts =>
        /\ filled = {}
        /\ ~submitted
        /\ \A l \in Later(flow, "wait_form") : calls[l] = 0
        /\ pc \in FailPcs
        /\ failed
        /\ terminal => exitCode # 0

C8_Witness ==
    /\ terminal
    /\ "wait_form" \in timeouts
    /\ exitCode = 1

\* C9: every wait, navigation, credential step and replay fetch of the
\* script is executed at most once in a run, and once a bounded wait has
\* timed out the run is on its way to failure: it is in the timeout handler's
\* screenshot or has failed, and it ends with a non-zero status.
C9_NoRetry ==
    /\ \A l \in Labels : calls[l] <= 1
    /\ timeouts # {} =>
          /\ Cardinality(timeouts) = 1
          /\ pc \in {"shot_login", "shot_sso"} \cup FailPcs
          /\ terminal => exitCode # 0

C9_Witness ==
    /\ terminal
    /\ flow = "gas"
    /\ timeouts = {"idle_switch"}
    /\ \A l \in Labels : calls[l] = IF l \in Later("gas", "idle_switch") \cup ShotLabels THEN 0 ELSE 1

\* C10: a run ends with status 0 or 1; it ends with a non-zero status and a
\* printed message exactly when a failure occurred, and a run that ends with
\* status 0 had its configuration, no timed-out wait, no screenshot, a
\* capture, and only fetches with status 200 and a decodable body.
C10_FailureNonZero ==
    terminal =>
        /\ exitCode \in {0, 1}
        /\ failed <=> exitCode # 0
        /\ failed => printed \notin {"none", "Done!"}
        /\ exitCode = 0 =>
              /\ cfg
              /\ timeouts = {}
              /\ shots = << >>
              /\ printed = "Done!"
              /\ IF flow = "ondemand"
                 THEN Truthy(captured) /\ ~ErrorTruthy(captured)
                 ELSE ajaxUrl # None
              /\ \A i \in 1..Len(fetched) :
                    fetched[i].status = 200 /\ fetched[i].body = "json"
        /\ (~cfg \/ timeouts # {} \/ shots # << >>) => exitCode # 0
        /\ (\E i \in 1..Len(fetched) :
               fetched[i].status # 200 \/ fetched[i].body # "json") => exitCode # 0

C10_Witness ==
    /\ terminal
    /\ exc = "Decode"
    /\ exitCode = 1
    /\ printed = "Decode"

-----------------------------------------------------------------------------
(* C11 .. C14: the replay fetches *)

\* the flows whose script issues two replay fetches (quantity, then cost)
TwoFetch == {f \in Flows : \E i \in 1..Len(Prog(f)) : Prog(f)[i] = "fetch2"}

\* the i-th fetch of the run was classified a fetch failure
StatusFailed(i) == i = Len(fetched) /\ exc = "FetchStatus"

\* C11 as stated: a replay fetch is classified a fetch failure exactly when
\* its status is outside 200..299; every status of 200..299 is accepted.
C11_FailsIffNot2xx ==
    \A i \in 1..Len(fetched) :
        StatusFailed(i) <=> fetched[i].status \notin 200..299

\* C12 as stated: in a flow with two replay fetches, a run that issued the
\* first fetch and has ended issued the second fetch too, with the same
\* cookies and headers, whether or not the first one failed.
C12_OtherFetchIssued ==
    (flow \in TwoFetch /\ terminal /\ Len(fetched) >= 1) =>
        /\ Len(fetched) = 2
        /\ fetched[2].cred = fetched[1].cred

\* C13: in a flow with two replay fetches, when the first fetch was accepted
\* and normalised and the second returned a failure status, the first output
\* file holds what the first fetch wrote, the second file was not written,
\* the metrics snapshot was not written, and the run fails with that one
\* fetch error, which is the message printed when the process ends.
C13_FirstOutputKept ==
    (/\ flow \in TwoFetch
     /\ Len(fetched) = 2
     /\ fetched[2].status # 200) =>
        /\ files["csv1"] = Written("fetch1", fetched[1].body)
        /\ files["csv2"] = Absent
        /\ files["prom"] = Absent
        /\ exc = "FetchStatus"
        /\ pc \in FailPcs
        /\ terminal => (printed = "FetchStatus" /\ exitCode = 1)

C13_Witness ==
    /\ flow = "monthly"
    /\ terminal
    /\ Len(fetched) = 2
    /\ fetched[1].status = 200
    /\ fetched[2].status = 500
    /\ files["csv1"] = Written("fetch1", "json")
    /\ printed = "FetchStatus"

\* C14 as stated: a replay body that does not parse fails its fetch with the
\* decode error, and in the on-demand flow a matching response whose body
\* does not parse, arriving while the slot is empty, leaves the slot empty
\* for the rest of the run.
C14_DecodeNeverIgnored ==
    /\ \A i \in 1..Len(fetched) :
          fetched[i].body = "garbage" => (i = Len(fetched) /\ exc = "Decode")
    /\ (flow = "ondemand" /\ MatchIdx(flow, observed) # {}) =>
          (~Decodable(observed[Min(MatchIdx(flow, observed))].body) => captured = None)

-----------------------------------------------------------------------------
(* The helper functions of the scripts, called on their own.  A behaviour   *)
(* is one call: the initial state holds the arguments, the one step         *)
(* computes the result.  No script is running: the variables of a run keep  *)
(* their values.                                                            *)

runVars == << flow, cfg, pc, browser, subscribed, issued, observed, captured,
              fromMeter, ajaxUrl, marks, shots, filled, submitted, cred,
              fetched, files, promCalls, calls, timeouts, exc, printed,
              exitCode >>

NoRun ==
    /\ flow = "daily"
    /\ cfg = TRUE
    /\ pc = "none"
    /\ browser = "none"
    /\ subscribed = FALSE
    /\ issued = << >>
    /\ observed = << >>
    /\ captured = None
    /\ fromMeter = None
    /\ ajaxUrl = None
    /\ marks = [meter |-> -1, switch |-> -1, decide |-> -1]
    /\ shots = << >>
    /\ filled = {}
    /\ submitted = FALSE
    /\ cred = [cookies |-> None, headers |-> None]
    /\ fetched = << >>
    /\ files = [n \in FileNames |-> Absent]
    /\ promCalls = 0
    /\ calls = [l \in Labels |-> 0]
    /\ timeouts = {}
    /\ exc = "none"
    /\ printed = "none"
    /\ exitCode = -1

\* sequences over S of length at most n
SeqUpTo(S, n) == UNION {[1..k -> S] : k \in 0..n}

-----------------------------------------------------------------------------
(* swap_usage_type.  A query string is the sequence of its '&'-separated    *)
(* fields; a field is its raw name, its raw value and whether it has an     *)
(* '='.  Raw text is percent-encoded text as it stands in the URL.          *)

MaxParams == 3

RawNames  == {"a", "b", "usageType"}
RawValues == {"Q", "", "x%20y"}

Field(n, v, e) == [name |-> n, value |-> v, eq |-> e]

\* the empty field of "a=1&&b=2"
BlankField == Field("", "", FALSE)

RawFields ==
    {Field(n, v, TRUE) : n \in RawNames, v \in RawValues}
    \cup {Field(n, "", FALSE) : n \in RawNames}
    \cup {BlankField}

\* unquote(s.replace('+', ' '))
Unquote(t) == IF t \in {"x%20y", "x+y"} THEN "x y" ELSE t

\* quote_plus(s)
QuotePlus(t) == IF t = "x y" THEN "x+y" ELSE t

\* urlparse(url).fragment of the raw '#...' tail, and urlunparse's tail for
\* a fragment: an empty fragment loses its '#'
FragmentOf(raw) == IF Len(raw) <= 1 THEN "" ELSE raw[2]
FragmentText(f) == IF f = "" THEN << >> ELSE << "#", f >>

RawFragments == {<< >>, << "#" >>, << "#", "frag" >>}

\* parse_qsl(qs, keep_blank_values=True): empty fields are skipped, a field
\* without '=' has the value '', names and values are unquoted
RECURSIVE parse_qsl(_)
parse_qsl(q) ==
    IF q = << >> THEN << >>
    ELSE IF Head(q) = BlankField THEN parse_qsl(Tail(q))
         ELSE << [name |-> Unquote(Head(q).name), value |-> Unquote(Head(q).value)] >>
              \o parse_qsl(Tail(q))

\* a dict, as the sequence of its items in insertion order
HasKey(d, k) == \E i \in 1..Len(d) : d[i].key = k

\* parsed_result[name].append(value) / parsed_result[name] = [value]
DictAppend(d, k, v) ==
    IF HasKey(d, k)
    THEN [i \in 1..Len(d) |-> IF d[i].key = k
                              THEN [key |-> k, vals |-> Append(d[i].vals, v)]
                              ELSE d[i]]
    ELSE Append(d, [key |-> k, vals |-> << v >>])

RECURSIVE DictOf(_, _)
DictOf(pairs, d) ==
    IF pairs = << >> THEN d
    ELSE DictOf(Tail(pairs), DictAppend(d, Head(pairs).name, Head(pairs).value))

parse_qs(q) == DictOf(parse_qsl(q), << >>)

\* mutant: the new values are added to those the key already has
DictSet_append(d, k, vals) ==
    IF HasKey(d, k)
    THEN [i \in 1..Len(d) |-> IF d[i].key = k
                              THEN [key |-> k, vals |-> d[i].vals \o vals]
                              ELSE d[i]]
    ELSE Append(d, [key |-> k, vals |-> vals])

\* params[k] = vals: a key the dict has keeps its place, a new key goes last
DictSet(d, k, vals) ==
    IF HasKey(d, k)
    THEN [i \in 1..Len(d) |-> IF d[i].key = k THEN [key |-> k, vals |-> vals] ELSE d[i]]
    ELSE Append(d, [key |-> k, vals |-> vals])

\* urlencode(params, doseq=True): key by key, one 'k=v' field per value
RECURSIVE urlencode(_)
urlencode(d) ==
    IF d = << >> THEN << >>
    ELSE [i \in 1..Len(Head(d).vals) |->
              Field(QuotePlus(Head(d).key), QuotePlus(Head(d).vals[i]), TRUE)]
         \o urlencode(Tail(d))

\* urlunparse(parsed._replace(query=urlencode(params, doseq=True)))
swap_usage_type(url, usage_type) ==
    [head     |-> url.head,
     query    |-> urlencode(DictSet(parse_qs(url.query), "usageType", << usage_type >>)),
     fragment |-> FragmentText(FragmentOf(url.fragment))]

SwapUrls ==
    [head : {"https://myenergy.xcelenergy.com/myenergy/usage-history-ajax/format/json"},
     query : SeqUpTo(RawFields, MaxParams),
     fragment : RawFragments]

InitSwap ==
    /\ NoRun
    /\ fn = "swap_usage_type"
    /\ arg \in [url : SwapUrls, usage_type : {"C", "Q"}]
    /\ out = << >>
    /\ ret = FALSE

CallSwap ==
    /\ fn = "swap_usage_type"
    /\ ~ret
    /\ out' = swap_usage_type(arg.url, arg.usage_type)
    /\ ret' = TRUE
    /\ UNCHANGED << fn, arg, runVars >>

SpecSwap == InitSwap /\ [][CallSwap]_vars

\* the parameters of a parsed query other than usageType, the usageType
\* ones, and the positions of the latter
OtherParams(ps) == SelectSeq(ps, LAMBDA x : x.name # "usageType")
UsageParams(ps) == SelectSeq(ps, LAMBDA x : x.name = "usageType")
UsageIdx(ps)    == {i \in 1..Len(ps) : ps[i].name = "usageType"}

\* C15 as stated: the query of the result has usageType set to the new
\* value; every other parameter is there with its name, value, multiplicity
\* and position (a URL with one usageType parameter differs from its result
\* in that parameter only, a URL with none gets it added at the end); head
\* and fragment are unchanged.  Parameters are compared decoded.
C15_OnlyUsageTypeChanges ==
    (fn = "swap_usage_type" /\ ret) =>
        LET pin  == parse_qsl(arg.url.query)
            pout == parse_qsl(out.query)
            new  == [name |-> "usageType", value |-> arg.usage_type]
        IN  /\ UsageParams(pout) # << >>
            /\ \A i \in UsageIdx(pout) : pout[i] = new
            /\ OtherParams(pout) = OtherParams(pin)
            /\ UsageIdx(pin) = {} => pout = Append(pin, new)
            /\ Cardinality(UsageIdx(pin)) = 1 =>
                  pout = [i \in 1..Len(pin) |-> IF i \in UsageIdx(pin) THEN new ELSE pin[i]]
            /\ out.head = arg.url.head
            /\ FragmentOf(out.fragment) = FragmentOf(arg.url.fragment)

-----------------------------------------------------------------------------
(* Series-shape normalisation: json_to_csv (usage and cost charts) and      *)
(* bill_json_to_csv (bill summary).  Numbers are counted in units of        *)
(* 1/10000, so 1232 is 0.1232; a JSON null is a value of its own.  A date   *)
(* label is the sequence of its tokens.                                     *)

MaxCats == 2

Num(n) == [null |-> FALSE, n |-> n]
Null   == [null |-> TRUE, n |-> 0]

\* values a payload can hold at an index; no sum of them lies half way
\* between two neighbours at 2 or at 3 decimals
Vals == {Null, Num(0), Num(1232)}

\* `v or 0` / `v or 0.0`
OrZero(v) == IF v.null \/ v.n = 0 THEN 0 ELSE v.n

\* `if v`
Nonzero(v) == ~v.null /\ v.n # 0

\* round(x, ndigits) for ndigits 2 and 3, away from the half-way cases
Round(x, ndigits) ==
    LET unit == IF ndigits = 3 THEN 10 ELSE 100
    IN  ((2 * x + unit) \div (2 * unit)) * unit

UsLabel    == << "2", "/", "26", "/", "2026" >>
IsoLabel   == << "2026", "-", "02", "-", "26", " ", "00:00:00" >>
WordsLabel == << "Feb", " ", "26,", " ", "2026" >>

DateLabels == {UsLabel, IsoLabel, WordsLabel}

Pad2(t) == IF t = "2" THEN "02" ELSE t

\* datetime.strptime(raw, "%m/%d/%Y") does not raise ValueError
IsUsDate(l) ==
    /\ Len(l) = 5
    /\ l[2] = "/" /\ l[4] = "/"
    /\ l[1] \in {"2", "02"} /\ l[3] \in {"26"} /\ l[5] \in {"2026"}

\* try: strptime(raw, "%m/%d/%Y").strftime("%Y-%m-%d") except ValueError: raw
BillDate(l) ==
    IF IsUsDate(l) THEN << l[5], "-", Pad2(l[1]), "-", Pad2(l[3]) >> ELSE l

\* d.split(" ")[0]
RECURSIVE SplitFirst(_)
SplitFirst(l) ==
    IF l = << >> \/ Head(l) = " " THEN << >>
    ELSE << Head(l) >> \o SplitFirst(Tail(l))

Series(n, d, h) == [name |-> n, data |-> d, hasData |-> h]

\* a series of the payload: a name and a data list, or no "data" key
SeriesShapes(n) ==
    {Series(n, d, TRUE) : d \in SeqUpTo(Vals, MaxCats)} \cup {Series(n, << >>, FALSE)}

\* mutant: past the end of the list its last value is repeated
ValAt_lastValue(d, i) ==
    IF i <= Len(d) THEN d[i] ELSE IF d = << >> THEN Num(0) ELSE d[Len(d)]

\* s["data"][i] if i < len(s["data"]) else 0.0   (i counted from 1)
ValAt(d, i) == IF i <= Len(d) THEN d[i] ELSE Num(0)

RECURSIVE SumOrZero(_)
SumOrZero(vs) == IF vs = << >> THEN 0 ELSE OrZero(Head(vs)) + SumOrZero(Tail(vs))

\* what a call leaves: the rows written after the header, whether the file
\* was opened for writing, the count returned, the exception raised
Result(rows, opened, n, e) == [rows |-> rows, opened |-> opened, count |-> n, error |-> e]

json_to_csv(data) ==
    LET dates  == [i \in 1..Len(data.labels) |-> SplitFirst(data.labels[i])]
        series == data.series
        row(i) == LET vals == [j \in 1..Len(series) |-> ValAt(series[j].data, i)]
                  IN  [label |-> i, date |-> dates[i], vals |-> vals,
                       total |-> Round(SumOrZero(vals), 3)]
    IN  IF dates = << >> \/ series = << >> THEN Result(<< >>, FALSE, 0, "none")
        ELSE IF \E j \in 1..Len(series) : ~series[j].hasData
             THEN Result(<< >>, TRUE, 0, "KeyError")
             ELSE Result([i \in 1..Len(dates) |-> row(i)], TRUE, Len(dates), "none")

\* by_name.get(name, [0.0] * len(cats))
ByName(series, n, cats) ==
    IF \E j \in 1..Len(series) : series[j].name = n
    THEN series[CHOOSE j \in 1..Len(series) : series[j].name = n].data
    ELSE [i \in 1..Len(cats) |-> Num(0)]

\* mutant: the drop policy is off, every billing cycle gets a row
Keeps_always(elec, gas) == TRUE

\* if elec or gas
Keeps(elec, gas) == Nonzero(elec) \/ Nonzero(gas)

bill_json_to_csv(data) ==
    LET cats   == data.labels
        series == data.series
        elec(i) == ValAt(ByName(series, "Electric Charges", cats), i)
        gas(i)  == ValAt(ByName(series, "Gas Charges", cats), i)
        row(i) == [label |-> i, date |-> BillDate(cats[i]),
                   vals |-> << Num(OrZero(elec(i))), Num(OrZero(gas(i))) >>,
                   total |-> Round(OrZero(elec(i)) + OrZero(gas(i)), 2)]
        kept == SelectSeq([i \in 1..Len(cats) |-> i], LAMBDA i : Keeps(elec(i), gas(i)))
    IN  IF cats = << >> \/ series = << >> THEN Result(<< >>, FALSE, 0, "none")
        ELSE IF \E j \in 1..Len(series) : ~series[j].hasData
             THEN Result(<< >>, FALSE, 0, "KeyError")
             ELSE Result([k \in 1..Len(kept) |-> row(kept[k])], TRUE, Len(kept), "none")

\* payloads of the usage and cost charts: up to two series
ChartSeries ==
    {<< >>}
    \cup {<< a >> : a \in SeriesShapes("On-Peak")}
    \cup {<< a, b >> : a \in SeriesShapes("On-Peak"), b \in SeriesShapes("Off-Peak")}

\* payloads of the bill summary: each charge series is there or not
BillSeries ==
    LET opt(n) == {<< >>} \cup {<< a >> : a \in SeriesShapes(n)}
        other  == {<< >>, << Series("Late Fees", << Num(1232) >>, TRUE) >>}
    IN  {e \o g \o o : e \in opt("Electric Charges"), g \in opt("Gas Charges"), o \in other}

\* rows = json_to_csv(r.json(), kwh_file) / json_to_csv(r.json(), cost_file)
ChartFiles == {"kwh_file", "cost_file"}

InitSeries ==
    /\ NoRun
    /\ \/ /\ fn = "json_to_csv"
          /\ arg \in [data : [labels : SeqUpTo(DateLabels, MaxCats), series : ChartSeries],
                      file : ChartFiles]
       \/ /\ fn = "bill_json_to_csv"
          /\ arg \in [data : [labels : SeqUpTo(DateLabels, MaxCats), series : BillSeries],
                      file : {"bill_file"}]
    /\ out = << >>
    /\ ret = FALSE

CallJsonToCsv ==
    /\ fn = "json_to_csv"
    /\ ~ret
    /\ out' = json_to_csv(arg.data)
    /\ ret' = TRUE
    /\ UNCHANGED << fn, arg, runVars >>

CallBillJsonToCsv ==
    /\ fn = "bill_json_to_csv"
    /\ ~ret
    /\ out' = bill_json_to_csv(arg.data)
    /\ ret' = TRUE
    /\ UNCHANGED << fn, arg, runVars >>

NextSeries == CallJsonToCsv \/ CallBillJsonToCsv

SpecSeries == InitSeries /\ [][NextSeries]_vars

-----------------------------------------------------------------------------
(* C16 .. C19 *)

SeriesFns == {"json_to_csv", "bill_json_to_csv"}

SeriesDone == fn \in SeriesFns /\ ret

\* every series of the payload has its data list
WellFormed(data) == \A j \in 1..Len(data.series) : data.series[j].hasData

\* the values the payload gives for series n at category index i
Given(data, n, i) ==
    {data.series[j].data[i] :
        j \in {k \in 1..Len(data.series) :
                  data.series[k].name = n /\ i <= Len(data.series[k].data)}}

\* the series whose values make up a record: the two charge series of the
\* bill summary, every series of a chart
Configured(f, data) ==
    IF f = "bill_json_to_csv" THEN {"Electric Charges", "Gas Charges"}
    ELSE {data.series[j].name : j \in 1..Len(data.series)}

\* no configured series has a non-zero value at index i
AllZero(f, data, i) ==
    \A n \in Configured(f, data) : \A v \in Given(data, n, i) : ~Nonzero(v)

\* the rows written for category index i
RowsOf(i) == {k \in 1..Len(out.rows) : out.rows[k].label = i}

\* the output is a currency output: the bill summary or a cost chart
Currency == fn = "bill_json_to_csv" \/ arg.file = "cost_file"

\* C16 as stated: the total of every row written is the sum of the row's
\* series values, null counted as zero, rounded to 2 decimals in a currency
\* output (bill summary, cost chart) and to 3 decimals in a quantity output.
C16_TotalRounded ==
    SeriesDone =>
        \A k \in 1..Len(out.rows) :
            out.rows[k].total =
                Round(SumOrZero(out.rows[k].vals), IF Currency THEN 2 ELSE 3)

\* C17 as stated: bill_json_to_csv writes no row for an index at which the
\* Electric Charges and Gas Charges values are all zero, null or absent and
\* one row for every other index; json_to_csv writes one row for every
\* index, with total 0 where all values are zero, null or absent.
C17_RowPerIndex ==
    (SeriesDone /\ WellFormed(arg.data)) =>
        \A i \in 1..Len(arg.data.labels) :
            IF fn = "bill_json_to_csv"
            THEN Cardinality(RowsOf(i)) = IF AllZero(fn, arg.data, i) THEN 0 ELSE 1
            ELSE /\ Cardinality(RowsOf(i)) = 1
                 /\ AllZero(fn, arg.data, i) => \A k \in RowsOf(i) : out.rows[k].total = 0

\* C17 amended: as C17, json_to_csv writing its one row per index when the
\* payload has at least one series (it writes nothing when it has none).
C17_RowPerIndexWithSeries ==
    (SeriesDone /\ WellFormed(arg.data)) =>
        \A i \in 1..Len(arg.data.labels) :
            IF fn = "bill_json_to_csv"
            THEN Cardinality(RowsOf(i)) = IF AllZero(fn, arg.data, i) THEN 0 ELSE 1
            ELSE IF arg.data.series = << >>
                 THEN out.rows = << >> /\ ~out.opened /\ out.count = 0
                 ELSE /\ Cardinality(RowsOf(i)) = 1
                      /\ AllZero(fn, arg.data, i) =>
                            \A k \in RowsOf(i) : out.rows[k].total = 0

C17_Witness ==
    /\ SeriesDone
    /\ fn = "bill_json_to_csv"
    /\ WellFormed(arg.data)
    /\ Len(arg.data.labels) = 2
    /\ Given(arg.data, "Electric Charges", 1) = {Num(0)}
    /\ Given(arg.data, "Gas Charges", 1) = {Null}
    /\ ~AllZero(fn, arg.data, 2)
    /\ Len(out.rows) = 1
    /\ out.rows[1].label = 2

\* C18: a payload whose series all have a data list is normalised without an
\* error, however short the lists are and whichever configured series are
\* missing; a series that is missing or ends before an index is written as 0
\* at that index, and the row's total is the rounded sum of the values the
\* payload does give there.
C18_ShortOrAbsentIsZero ==
    (SeriesDone /\ WellFormed(arg.data)) =>
        /\ out.error = "none"
        /\ \A k \in 1..Len(out.rows) :
              LET i == out.rows[k].label
                  names == IF fn = "bill_json_to_csv"
                           THEN << "Electric Charges", "Gas Charges" >>
                           ELSE [j \in 1..Len(arg.data.series) |-> arg.data.series[j].name]
                  given == [j \in 1..Len(names) |->
                               IF Given(arg.data, names[j], i) = {} THEN Num(0)
                               ELSE CHOOSE v \in Given(arg.data, names[j], i) : TRUE]
              IN  /\ \A j \in 1..Len(names) :
                        Given(arg.data, names[j], i) = {} => out.rows[k].vals[j] = Num(0)
                  /\ out.rows[k].total =
                        Round(SumOrZero(given), IF fn = "bill_json_to_csv" THEN 2 ELSE 3)

C18_Witness ==
    /\ SeriesDone
    /\ fn = "json_to_csv"
    /\ Len(arg.data.labels) = 2
    /\ Len(arg.data.series) = 2
    /\ arg.data.series[1].data = << Num(1232), Num(1232) >>
    /\ arg.data.series[2].hasData /\ arg.data.series[2].data = << Num(1232) >>
    /\ out.error = "none"
    /\ Len(out.rows) = 2
    /\ out.rows[2].vals[2] = Num(0)

\* the source date format of a normaliser: MM/DD/YYYY for the bill summary,
\* YYYY-MM-DD followed by a time for the charts
IsIsoStamp(l) ==
    /\ Len(l) >= 5
    /\ l[2] = "-" /\ l[4] = "-"
    /\ Len(l) > 5 => l[6] = " "

Parses(f, l) == IF f = "bill_json_to_csv" THEN IsUsDate(l) ELSE IsIsoStamp(l)

IsoDate(f, l) ==
    IF f = "bill_json_to_csv"
    THEN << l[5], "-", Pad2(l[1]), "-", Pad2(l[3]) >>
    ELSE SubSeq(l, 1, 5)

\* C19 as stated: every row written carries the ISO date of its category
\* label when the label parses in the source date format and the raw label
\* unchanged when it does not, and the rows written for a payload are those
\* of the same payload with every label replaced by a parsable one.
C19_DateOrRaw ==
    (SeriesDone /\ WellFormed(arg.data)) =>
        /\ \A k \in 1..Len(out.rows) :
              LET l == arg.data.labels[out.rows[k].label]
              IN  out.rows[k].date = IF Parses(fn, l) THEN IsoDate(fn, l) ELSE l
        /\ LET good  == IF fn = "bill_json_to_csv" THEN UsLabel ELSE IsoLabel
               data2 == [arg.data EXCEPT !.labels = [i \in 1..Len(arg.data.labels) |-> good]]
               out2  == IF fn = "bill_json_to_csv" THEN bill_json_to_csv(data2)
                        ELSE json_to_csv(data2)
           IN  /\ Len(out2.rows) = Len(out.rows)
               /\ \A k \in 1..Len(out.rows) :
                     /\ out2.rows[k].label = out.rows[k].label
                     /\ out2.rows[k].vals = out.rows[k].vals

-----------------------------------------------------------------------------
(* Interval-shape normalisation: intervals_to_csv *)

MaxIntervals == 3

RawStamp == "2/26/2026 8:30 AM"

\* parse_interval_datetime(ts)
parse_interval_datetime(ts) == IF ts = RawStamp THEN "2026-02-26 08:30" ELSE ts

Item(ts, e, a, r) ==
    [last_request_timestamp |-> ts, last_request_unix_timestamp |-> e,
     odr_amt |-> a, rate_level |-> r]

\* last_request_unix_timestamp of an item: null, an integer number of
\* seconds, a number of seconds with a fraction (n seconds and milli
\* thousandths), or a value int() rejects (a string such as "n/a")
NullE       == [null |-> TRUE, int |-> FALSE, n |-> 0, milli |-> 0]
IntE(n)     == [null |-> FALSE, int |-> TRUE, n |-> n, milli |-> 0]
FracE(n, m) == [null |-> FALSE, int |-> TRUE, n |-> n, milli |-> m]
TextE       == [null |-> FALSE, int |-> FALSE, n |-> 0, milli |-> 0]

\* an item without the rate_level key
NoTag == "<absent>"

\* a timestamp string strptime rejects
OddStamp == "n/a"

\* interval items of a payload: the timestamp string may be empty, the
\* epoch seconds and the amount may be null
Items ==
    {Item(ts, e, a, NoTag) : ts \in {RawStamp, ""},
                             e \in {NullE, IntE(100), IntE(200), TextE},
                             a \in {Null, Num(0), Num(1232)}}
    \cup {Item(OddStamp, IntE(100), Num(1232), "on_peak"),
          Item(RawStamp, IntE(200), Num(0), "on_peak"),
          Item(RawStamp, FracE(100, 500), Num(1232), NoTag)}

\* if ts_str and unix_s is not None and kwh is not None
Wellformed(iv) ==
    /\ iv.last_request_timestamp # ""
    /\ ~iv.last_request_unix_timestamp.null
    /\ ~iv.odr_amt.null

\* iv.get("rate_level", "")
TagOf(iv) == IF iv.rate_level = NoTag THEN "" ELSE iv.rate_level

\* int(unix_s): the whole seconds, a fraction is cut off
IntOf(e) == e.n

\* mutant: the rate_level column is left empty
RowOf_blankTag(iv, i) ==
    [item |-> i,
     DateTime |-> parse_interval_datetime(iv.last_request_timestamp),
     kWh |-> iv.odr_amt,
     rate_level |-> "",
     unix_ms |-> IntOf(iv.last_request_unix_timestamp) * 1000]

\* the row appended for item number i
RowOf(iv, i) ==
    [item |-> i,
     DateTime |-> parse_interval_datetime(iv.last_request_timestamp),
     kWh |-> iv.odr_amt,
     rate_level |-> TagOf(iv),
     unix_ms |-> IntOf(iv.last_request_unix_timestamp) * 1000]

\* r placed after the rows of the sorted list whose key is not greater
RECURSIVE InsertRow(_, _)
InsertRow(sorted, r) ==
    IF sorted = << >> THEN << r >>
    ELSE IF Head(sorted).unix_ms <= r.unix_ms
         THEN << Head(sorted) >> \o InsertRow(Tail(sorted), r)
         ELSE << r >> \o sorted

RECURSIVE SortedPrefix(_, _)
SortedPrefix(rows, n) ==
    IF n = 0 THEN << >> ELSE InsertRow(SortedPrefix(rows, n - 1), rows[n])

\* mutant: the rows are written in the order of the input
SortRows_unsorted(rows) == rows

\* rows.sort(key=lambda r: r["unix_ms"]): ascending and stable
SortRows(rows) == SortedPrefix(rows, Len(rows))

\* int(unix_s) raises ValueError
IntRaises(iv) == ~iv.last_request_unix_timestamp.int

intervals_to_csv(intervals) ==
    LET kept == SelectSeq([i \in 1..Len(intervals) |-> i],
                          LAMBDA i : Wellformed(intervals[i]))
        rows == SortRows([k \in 1..Len(kept) |-> RowOf(intervals[kept[k]], kept[k])])
    IN  IF \E k \in 1..Len(kept) : IntRaises(intervals[kept[k]])
        THEN Result(<< >>, FALSE, 0, "ValueError")
        ELSE Result(rows, TRUE, Len(rows), "none")

\* a line the run prints, with the number it reports
Line(what, n) == [what |-> what, n |-> n]

\* what main() prints around the call: the number of intervals captured,
\* then the number of rows saved, or the failure when the call raised
RunLog(intervals, res) ==
    << Line("Captured odr-ajax response", Len(intervals)),
       IF res.error = "none" THEN Line("Saved", res.count) ELSE Line("Failed", 0) >>

InitIntervals ==
    /\ NoRun
    /\ fn = "intervals_to_csv"
    /\ arg \in [intervals : SeqUpTo(Items, MaxIntervals)]
    /\ out = << >>
    /\ ret = FALSE

CallIntervalsToCsv ==
    /\ fn = "intervals_to_csv"
    /\ ~ret
    /\ out' = intervals_to_csv(arg.intervals)
    /\ printed' = RunLog(arg.intervals, out')
    /\ ret' = TRUE
    /\ UNCHANGED << fn, arg, flow, cfg, pc, browser, subscribed, issued, observed,
                    captured, fromMeter, ajaxUrl, marks, shots, filled, submitted,
                    cred, fetched, files, promCalls, calls, timeouts, exc,
                    exitCode >>

SpecIntervals == InitIntervals /\ [][CallIntervalsToCsv]_vars

IntervalsDone == fn = "intervals_to_csv" /\ ret

\* the whole epoch seconds of the well-formed items of the input
KeptEpochs ==
    {arg.intervals[i].last_request_unix_timestamp.n :
        i \in {j \in 1..Len(arg.intervals) : Wellformed(arg.intervals[j])}}

\* C20 as stated: each row written has an epoch value greater than that of
\* the row before it.
C20_StrictlyAscending ==
    IntervalsDone =>
        \A k \in 2..Len(out.rows) : out.rows[k].unix_ms > out.rows[k - 1].unix_ms

\* C20 amended: each row written has an epoch value greater than or equal to
\* that of the row before it, and greater when no two well-formed items of
\* the input have the same epoch.
C20_Ascending ==
    IntervalsDone =>
        /\ \A k \in 2..Len(out.rows) : out.rows[k].unix_ms >= out.rows[k - 1].unix_ms
        /\ Cardinality(KeptEpochs) = Len(out.rows) =>
              \A k \in 2..Len(out.rows) : out.rows[k].unix_ms > out.rows[k - 1].unix_ms

C20_Witness ==
    /\ IntervalsDone
    /\ Len(arg.intervals) = 3
    /\ \A i \in 1..3 : Wellformed(arg.intervals[i])
    /\ arg.intervals[1].last_request_unix_timestamp = IntE(200)
    /\ arg.intervals[2].last_request_unix_timestamp = IntE(100)
    /\ arg.intervals[3].last_request_unix_timestamp = IntE(200)
    /\ << out.rows[1].item, out.rows[2].item, out.rows[3].item >> = << 2, 1, 3 >>

-----------------------------------------------------------------------------
(* C21 .. C23 *)

\* the items that have a non-empty timestamp string, a non-null epoch and a
\* non-null amount, by their position in the input
Complete ==
    {i \in 1..Len(arg.intervals) :
        /\ arg.intervals[i].last_request_timestamp # ""
        /\ arg.intervals[i].last_request_unix_timestamp # NullE
        /\ arg.intervals[i].odr_amt # Null}

\* the items to exclude: a required field is missing, or the epoch is not an
\* integer
Malformed ==
    {i \in 1..Len(arg.intervals) :
        \/ i \notin Complete
        \/ ~arg.intervals[i].last_request_unix_timestamp.int
        \/ arg.intervals[i].last_request_unix_timestamp.milli # 0}

\* C21 as stated: the rows written are one row for each item that has a
\* non-empty timestamp string, a non-null epoch and a non-null amount (0
\* included) and no other row, and the count returned is the number of rows.
C21_RowsAreCompleteItems ==
    IntervalsDone =>
        /\ {out.rows[k].item : k \in 1..Len(out.rows)} = Complete
        /\ Len(out.rows) = Cardinality(Complete)
        /\ out.count = Len(out.rows)
        /\ out.error = "none"

\* C22 as stated: whatever the items, the call returns normally, and the
\* rows written are those of the items that are not malformed, an item whose
\* epoch is not an integer being excluded like one that lacks a field.
C22_MalformedItemSkipped ==
    IntervalsDone =>
        /\ out.error = "none"
        /\ {out.rows[k].item : k \in 1..Len(out.rows)}
              = (1..Len(arg.intervals)) \ Malformed

\* C23 as stated: when items were excluded for a missing required field, the
\* run prints a line that reports how many were skipped.
C23_SkippedReported ==
    IntervalsDone =>
        LET skipped == Cardinality((1..Len(arg.intervals)) \ Complete)
        IN  skipped > 0 =>
               \E k \in 1..Len(printed) :
                   printed[k].what = "Skipped" /\ printed[k].n = skipped

-----------------------------------------------------------------------------
(* C24, and C10 with the payload error as the specification defines it *)

\* the payload taken from the capture slot carries an error field that is
\* not null
PayloadError ==
    /\ flow = "ondemand"
    /\ marks.decide >= 0
    /\ ErrorField(captured) # None

\* C24 as stated: in the on-demand flow, once the captured payload has an
\* error field that is not null (the empty string included), neither the
\* interval CSV nor the metrics snapshot is written and the run ends failed.
C24_ErrorFieldFatal ==
    PayloadError =>
        /\ files["csv1"] = Absent
        /\ files["prom"] = Absent
        /\ terminal => failed /\ exitCode # 0

\* C10 as stated, the payload error being an error field that is not null:
\* every failure ends the run with a non-zero status and a printed message,
\* and status 0 is reached only when no failure occurred.
C10_EveryFailureNonZero ==
    /\ C10_FailureNonZero
    /\ (terminal /\ PayloadError) => (exitCode # 0 /\ printed \notin {"none", "Done!"})

-----------------------------------------------------------------------------
(* C25, C26: the credential and the observer *)

\* the cookie and header maps before context.cookies() has been read
NoCredential == [cookies |-> None, headers |-> None]

\* C25: the cookies and headers are read at most once in a run, and exactly
\* once in a run that ends with status 0 and replays; they exist only once
\* the capture decision has given a URL; every replay fetch was issued with
\* the credential as it is now (it was built before the fetch and has not
\* changed since), so all fetches of a run carry identical cookies and
\* headers.
C25_CredentialOnce ==
    /\ calls["cookies"] <= 1
    /\ cred # NoCredential =>
          /\ calls["cookies"] = 1
          /\ marks.decide >= 0
          /\ ajaxUrl # None
    /\ \A i \in 1..Len(fetched) :
          fetched[i].cred = cred /\ cred # NoCredential
    /\ (terminal /\ exitCode = 0 /\ flow # "ondemand") => calls["cookies"] = 1

C25_Witness ==
    /\ terminal
    /\ flow = "daily"
    /\ Len(fetched) = 2
    /\ cred = [cookies |-> "session", headers |-> "UA+usage-history"]
    /\ fetched[1].cred = cred
    /\ fetched[2].cred = cred

\* C26: a step in which the observer handles an event appends that event to
\* what the page issued and what was observed, changes at most the capture
\* slot besides, and leaves the position in the script, the page, and every
\* other variable as they were: no call, navigation or further request is
\* made by it.
C26_PureObservation ==
    [][observed' # observed =>
          /\ observed' = Append(observed, observed'[Len(observed')])
          /\ issued' = Append(issued, observed'[Len(observed')])
          /\ UNCHANGED << fn, arg, out, ret, flow, cfg, pc, browser, subscribed,
                          fromMeter, ajaxUrl, marks, shots, filled, submitted, cred,
                          fetched, files, promCalls, calls, timeouts, exc, printed,
                          exitCode >>]_vars

C26_Witness ==
    /\ flow = "bill"
    /\ Len(observed) = 2
    /\ captured = observed[1].url
    /\ observed[2].url \notin {captured, "other"}
    /\ pc = "goto_target"

-----------------------------------------------------------------------------
(* parse_money (bill history), called on its own *)

MaxChars == 3

\* the characters of an argument: a currency sign, digits, the point and
\* the minus sign
MoneyChars == {"$", "1", "5", ".", "-"}

DigitChars == {"0", "1", "5"}

DigitVal(c) == CASE c = "0" -> 0 [] c = "1" -> 1 [] c = "5" -> 5

\* re.sub(r"[^0-9.\-]", "", str(s))
Strip(s) == SelectSeq(s, LAMBDA c : c \in DigitChars \cup {".", "-"})

\* ... or "0"
OrZeroText(t) == IF t = << >> THEN << "0" >> ELSE t

\* the text without its leading minus sign
Unsigned(t) == IF t # << >> /\ t[1] = "-" THEN Tail(t) ELSE t

\* float(t) accepts t: an optional sign, then digits with at most one point
\* and at least one digit
IsFloat(t) ==
    LET u == Unsigned(t)
    IN  /\ \A i \in 1..Len(u) : u[i] # "-"
        /\ Cardinality({i \in 1..Len(u) : u[i] = "."}) <= 1
        /\ \E i \in 1..Len(u) : u[i] \in DigitChars

RECURSIVE DigitsValue(_)
DigitsValue(ds) ==
    IF ds = << >> THEN 0
    ELSE 10 * DigitsValue(SubSeq(ds, 1, Len(ds) - 1)) + DigitVal(ds[Len(ds)])

\* a float as sign, decimal mantissa and number of decimals
Float(neg, mant, decimals) == [neg |-> neg, mant |-> mant, decimals |-> decimals]

Zero == Float(FALSE, 0, 0)

\* float(t) for a text it accepts
FloatOf(t) ==
    LET u      == Unsigned(t)
        digits == SelectSeq(u, LAMBDA c : c \in DigitChars)
        point  == IF \E i \in 1..Len(u) : u[i] = "."
                  THEN CHOOSE i \in 1..Len(u) : u[i] = "."
                  ELSE Len(u) + 1
    IN  Float(u # t, DigitsValue(digits), Len(u) + 1 - point - (IF point <= Len(u) THEN 1 ELSE 0))

\* return float(re.sub(...) or "0")
parse_money(s) ==
    LET t == OrZeroText(Strip(s))
    IN  IF IsFloat(t) THEN [value |-> FloatOf(t), error |-> "none"]
        ELSE [value |-> Zero, error |-> "ValueError"]

InitMoney ==
    /\ NoRun
    /\ fn = "parse_money"
    /\ arg \in [s : SeqUpTo(MoneyChars, MaxChars)]
    /\ out = << >>
    /\ ret = FALSE

CallParseMoney ==
    /\ fn = "parse_money"
    /\ ~ret
    /\ out' = parse_money(arg.s)
    /\ ret' = TRUE
    /\ UNCHANGED << fn, arg, runVars >>

SpecMoney == InitMoney /\ [][CallParseMoney]_vars

MoneyDone == fn = "parse_money" /\ ret

\* C27 as stated: parse_money never raises, and for a string without any
\* digit (the empty string, a string of signs and points) it returns 0.0.
C27_ZeroForNonNumeric ==
    MoneyDone =>
        /\ out.error = "none"
        /\ (\A i \in 1..Len(arg.s) : arg.s[i] \notin DigitChars) => out.value = Zero

-----------------------------------------------------------------------------
(* C28 .. C30: what the captured URL carries *)

\* the URL has a query parameter with this name and exactly this value
HasParam(u, name, value) ==
    \E i \in 1..Len(UrlTable(u).query) :
        UrlTable(u).query[i] = [name |-> << name >>, value |-> << value >>]

\* C28 as stated: in the gas flow the URL of a replay fetch is that of a
\* request observed after the meter was selected and before the capture
\* decision, and it has the parameter timePeriod=MONTHLY.
C28_GasReplaysMonthly ==
    flow = "gas" =>
        \A i \in 1..Len(fetched) :
            /\ \E k \in (marks.meter + 1)..marks.decide :
                  observed[k].url = fetched[i].url.base
            /\ HasParam(fetched[i].url.base, "timePeriod", "MONTHLY")

\* C29 as stated: in the daily (monthly) flow a URL in the capture slot has
\* a parameter named timePeriod with the value DAILY (MONTHLY).
C29_PeriodParameterExact ==
    /\ (flow = "daily" /\ captured # None) => HasParam(captured, "timePeriod", "DAILY")
    /\ (flow = "monthly" /\ captured # None) => HasParam(captured, "timePeriod", "MONTHLY")

\* the values of the custid parameters of a URL, in query order
CustidValues(u) ==
    LET q == SelectSeq(UrlTable(u).query, LAMBDA p : p.name = << "custid" >>)
    IN  [i \in 1..Len(q) |-> q[i].value]

\* the same without the empty values
CustidGiven(u) == SelectSeq(CustidValues(u), LAMBDA v : v # << >>)

\* the bill run has taken its captured URL out of the slot
BillDecided == flow = "bill" /\ marks.decide >= 0 /\ ajaxUrl # None

\* C30 as stated: the replayed URL of the bill flow is built from the
\* template with the first custid value of the captured URL; when the
\* captured URL has no custid parameter or its first custid value is empty,
\* the run fails and no fetch is issued.
C30_FirstCustid ==
    BillDecided =>
        LET vs == CustidValues(ajaxUrl)
        IN  IF vs = << >> \/ vs[1] = << >>
            THEN fetched = << >> /\ (terminal => failed /\ exitCode # 0)
            ELSE \A i \in 1..Len(fetched) :
                    fetched[i].url.kind = "template" /\ fetched[i].url.custid = vs[1]

\* C30, amended: the account identifier is the first custid value that is
\* not empty; the run fails without a fetch when the captured URL has no
\* custid parameter with a value.
C30_FirstGivenCustid ==
    BillDecided =>
        LET vs == CustidGiven(ajaxUrl)
        IN  IF vs = << >>
            THEN fetched = << >> /\ (terminal => failed /\ exitCode # 0)
            ELSE \A i \in 1..Len(fetched) :
                    fetched[i].url.kind = "template" /\ fetched[i].url.custid = vs[1]

C30_Witness ==
    /\ terminal
    /\ flow = "bill"
    /\ ajaxUrl = "bill_A"
    /\ Len(CustidGiven(ajaxUrl)) = 2
    /\ Len(fetched) = 1
    /\ fetched[1].url.custid = << "A" >>

-----------------------------------------------------------------------------
(* C31: the columns of an interval row *)

\* the timestamp string is of the form the portal sends, M/D/YYYY H:MM AM
Stamped(ts) == ts = RawStamp

-----------------------------------------------------------------------------
(* C32: termination *)

\* a step of the script: the blocking call in progress returns, raises or
\* times out, or the exception handling moves on
Returns ==
    \/ Start
    \/ Launch
    \/ NewPage
    \/ Goto
    \/ WaitForSelector
    \/ Fill
    \/ Click
    \/ WaitForUrl
    \/ Screenshot
    \/ WaitForLoadState
    \/ EvaluateMeter
    \/ EvaluateSwitch
    \/ WaitForTimeout
    \/ Cookies
    \/ Fetch
    \/ CloseBrowser
    \/ GenerateProm
    \/ WithExitOnError
    \/ MainExcept

MaxLiveEvents == 2

\* the run with at most MaxLiveEvents requests issued by the page
NextLive == Returns \/ (Len(issued) < MaxLiveEvents /\ OnEvent)

\* every call in progress eventually returns, raises or times out; nothing
\* is assumed about the requests the page issues
SpecLive == Init /\ [][NextLive]_vars /\ WF_vars(Returns)

\* C32: every run reaches the end of the process, with status 0 or with a
\* failure, and stays there.
C32_Terminates == <>[](terminal /\ exitCode \in {0, 1})

C32_Witness ==
    /\ terminal
    /\ flow = "gas"
    /\ timeouts = {"idle_meter"}
    /\ exitCode = 1
    /\ Len(observed) = MaxLiveEvents

-----------------------------------------------------------------------------
(* C33, C34: the metrics snapshot and the screenshots *)

\* the CSV files the flow writes
CsvFiles(f) == IF f \in TwoFetch THEN {"csv1", "csv2"} ELSE {"csv1"}

\* C33: generate_prom is invoked at most once in a run; when it has been
\* invoked, every CSV file of the flow has been written, no wait timed out,
\* no screenshot was taken, every fetch was accepted and decoded, and the
\* only failure there can be is that of generate_prom itself; a run that
\* failed at another step has not invoked it and has no metrics file.
C33_PromOnceAfterCsv ==
    /\ promCalls <= 1
    /\ promCalls = calls["prom"]
    /\ promCalls = 1 =>
          /\ \A n \in CsvFiles(flow) : files[n] # Absent
          /\ timeouts = {}
          /\ shots = << >>
          /\ \A i \in 1..Len(fetched) : fetched[i].status = 200 /\ fetched[i].body = "json"
          /\ exc \in {"none", "PromError"}
    /\ (failed /\ exc # "PromError") => (promCalls = 0 /\ files["prom"] = Absent)
    /\ files["prom"] # Absent => promCalls = 1

C33_Witness ==
    /\ terminal
    /\ flow = "daily"
    /\ exitCode = 0
    /\ promCalls = 1
    /\ files["csv1"] = Written("fetch1", "json")
    /\ files["csv2"] = Written("fetch2", "json")
    /\ files["prom"] = Written("prom", "samples")

\* C34: at most one diagnostic screenshot is taken in a run, and once one
\* has been taken the run has failed: it writes no metrics snapshot, never
\* prints "Done!" and ends with a non-zero status.
C34_OneShotNeverSuccess ==
    /\ Len(shots) <= 1
    /\ \A l \in ShotLabels : calls[l] <= 1
    /\ shots # << >> =>
          /\ failed
          /\ promCalls = 0
          /\ printed # "Done!"
          /\ exitCode # 0
          /\ terminal => exitCode = 1

C34_Witness ==
    /\ terminal
    /\ flow = "gas"
    /\ shots = << "gas_meter_error.png" >>
    /\ exc = "MeterMissing"
    /\ exitCode = 1

-----------------------------------------------------------------------------
(* C35: the three CSV writers side by side *)

\* one call of one of json_to_csv, bill_json_to_csv and intervals_to_csv
InitCsv == InitSeries \/ InitIntervals

NextCsv == CallJsonToCsv \/ CallBillJsonToCsv \/ CallIntervalsToCsv

SpecCsv == InitCsv /\ [][NextCsv]_vars

\* C35 as stated: for a payload without categories or without series,
\* json_to_csv and bill_json_to_csv return 0 without raising and without
\* opening the output file; intervals_to_csv opens and rewrites its output
\* file on every call, with no row after the header for an empty list.
C35_UntouchedOrOverwritten ==
    /\ (SeriesDone /\ (arg.data.labels = << >> \/ arg.data.series = << >>)) =>
          out = Result(<< >>, FALSE, 0, "none")
    /\ IntervalsDone =>
          /\ out.opened
          /\ out.error = "none"
          /\ arg.intervals = << >> => (out.rows = << >> /\ out.count = 0)

-----------------------------------------------------------------------------
(* C36: missing configuration *)

\* C36: a run without the username or the password ends in its first step
\* with status 1 and the configuration message; no browser is launched, no
\* call is made, the observer is not registered, nothing is observed,
\* fetched, filled, submitted, captured on screen or written.
C36_NoConfigNoEffect ==
    (~cfg /\ pc # "start") =>
        /\ terminal
        /\ exitCode = 1
        /\ exc = "SystemExit"
        /\ printed = "ERROR: Set XCEL_USERNAME and XCEL_PASSWORD in your .env file."
        /\ browser = "none"
        /\ ~subscribed
        /\ \A l \in Labels : calls[l] = 0
        /\ issued = << >> /\ observed = << >>
        /\ fetched = << >>
        /\ shots = << >>
        /\ filled = {} /\ ~submitted
        /\ cred = NoCredential
        /\ promCalls = 0
        /\ \A n \in FileNames : files[n] = Absent

C36_Witness ==
    /\ ~cfg
    /\ terminal
    /\ flow = "ondemand"
    /\ exitCode = 1

-----------------------------------------------------------------------------
(* C37: swap_usage_type applied twice *)

\* C37: whatever the number of usageType parameters of the URL, the result
\* has exactly one field named usageType, holding the requested value, and
\* swap_usage_type applied to the result with the same value returns the
\* result.
C37_IdempotentNormalizing ==
    (fn = "swap_usage_type" /\ ret) =>
        /\ Cardinality({i \in 1..Len(out.query) : Unquote(out.query[i].name) = "usageType"}) = 1
        /\ \A i \in 1..Len(out.query) :
              Unquote(out.query[i].name) = "usageType" =>
                  out.query[i] = Field("usageType", arg.usage_type, TRUE)
        /\ swap_usage_type(out, arg.usage_type) = out

C37_Witness ==
    /\ fn = "swap_usage_type"
    /\ ret
    /\ arg.usage_type = "C"
    /\ Len(arg.url.query) = 3
    /\ arg.url.query[1] = Field("usageType", "Q", TRUE)
    /\ arg.url.query[2] = Field("a", "x%20y", TRUE)
    /\ arg.url.query[3] = Field("usageType", "", FALSE)
    /\ out.query = << Field("usageType", "C", TRUE), Field("a", "x+y", TRUE) >>

====
